---- MODULE Spec2Model ----
(***************************************************************************)
(* Model of torchkge/models/interfaces.py: the Model interface, the        *)
(* TranslationModel and BilinearModel families, their rank computation     *)
(* with ground-truth filtering and the evaluate_candidates orchestration.  *)
(*                                                                         *)
(* A tensor is a record [shape, data]: data is the sequence of its        *)
(* entries in row-major order, so that view() keeps data and changes      *)
(* shape.  Positions along an axis are 1..size: sample i of the code is   *)
(* position i+1 and entity j is position j+1.  Index tensors (h_idx, ...) *)
(* are sequences of the code's 0-based indices.  Embedding entries are    *)
(* small integers.  A score is a float <<k, x>>: k = 0 for the finite     *)
(* value x, k = 1 for +Inf and k = -1 for -Inf.                           *)
(***************************************************************************)
EXTENDS Integers, Sequences, FiniteSets, TLC

VARIABLES self, args, pc, frame, ret

vars == <<self, args, pc, frame, ret>>

(***************************************************************************)
(* Bounds of the model.                                                    *)
(***************************************************************************)
NEnt == 3
NRel == 1
Dim == 1
MaxBatch == 2
EmbDim == 2
MaxCand == 2
MaxFacts == 2

Vals == {-1, 0, 1}

Entities == 0 .. (NEnt - 1)
Relations == 0 .. (NRel - 1)
Vectors(d) == [1 .. d -> Vals]

(***************************************************************************)
(* Python values that are not tensors.                                     *)
(***************************************************************************)
None == [py |-> "None"]
Raised(e) == [status |-> e]
IsRaised(r) == r.status # "ok"

(***************************************************************************)
(* Floats with infinities.                                                 *)
(***************************************************************************)
Fin(x) == <<0, x>>
PosInf == <<1, 0>>
FNeg(a) == <<-a[1], -a[2]>>
FGt(a, b) == a[1] > b[1] \/ (a[1] = b[1] /\ a[2] > b[2])

Abs(x) == IF x < 0 THEN -x ELSE x

RECURSIVE SumSeq(_)
SumSeq(s) == IF s = <<>> THEN 0 ELSE Head(s) + SumSeq(Tail(s))

SumTo(n, F(_)) == SumSeq([m \in 1 .. n |-> F(m)])

RECURSIVE Numel(_)
Numel(shape) == IF shape = <<>> THEN 1 ELSE Head(shape) * Numel(Tail(shape))

(***************************************************************************)
(* torch tensors.  (<<>> \o f gives the entries f as a sequence.)           *)
(***************************************************************************)
Mk1(s1, F(_)) == [shape |-> <<s1>>, data |-> <<>> \o [p \in 1 .. s1 |-> F(p)]]

Mk2(s1, s2, F(_, _)) ==
  [shape |-> <<s1, s2>>,
   data |-> <<>> \o [p \in 1 .. (s1 * s2) |-> F(((p - 1) \div s2) + 1, ((p - 1) % s2) + 1)]]

Mk3(s1, s2, s3, F(_, _, _)) ==
  [shape |-> <<s1, s2, s3>>,
   data |-> <<>> \o [p \in 1 .. (s1 * s2 * s3) |->
               F(((p - 1) \div (s2 * s3)) + 1,
                 (((p - 1) \div s3) % s2) + 1,
                 ((p - 1) % s3) + 1)]]

At1(t, i) == t.data[i]
At2(t, i, j) == t.data[(i - 1) * t.shape[2] + j]
At3(t, i, j, k) == t.data[((i - 1) * t.shape[2] + (j - 1)) * t.shape[3] + k]

\* t.view(shape): the same entries in the same row-major order; one size may
\* be -1 and is then inferred.
view(t, shape) ==
  LET known == Numel([p \in DOMAIN shape |-> IF shape[p] = -1 THEN 1 ELSE shape[p]])
  IN [shape |-> [p \in DOMAIN shape |->
                   IF shape[p] = -1 THEN Numel(t.shape) \div known ELSE shape[p]],
      data |-> t.data]

\* t.expand(shape) of a 3-D tensor: axes of size 1 are repeated.
expand(t, shape) ==
  Mk3(shape[1], shape[2], shape[3],
      LAMBDA i, j, k : At3(t, IF t.shape[1] = 1 THEN 1 ELSE i,
                              IF t.shape[2] = 1 THEN 1 ELSE j,
                              IF t.shape[3] = 1 THEN 1 ELSE k))

\* t.transpose(0, 1) of a 2-D tensor and t.transpose(1, 2) of a 3-D tensor.
transpose(t, d0, d1) ==
  IF Len(t.shape) = 2
  THEN Mk2(t.shape[2], t.shape[1], LAMBDA i, j : At2(t, j, i))
  ELSE Mk3(t.shape[1], t.shape[3], t.shape[2], LAMBDA i, j, k : At3(t, i, k, j))

\* torch.matmul of two 3-D tensors: the batched matrix product.
matmul(a, b) ==
  Mk3(a.shape[1], a.shape[2], b.shape[3],
      LAMBDA i, j, k : SumTo(a.shape[3], LAMBDA m : At3(a, i, j, m) * At3(b, i, m, k)))

Max(x, y) == IF x > y THEN x ELSE y

\* a * b: the entrywise product, axes of size 1 broadcast (2-D or 3-D).
mul(a, b) ==
  IF Len(a.shape) = 2
  THEN Mk2(Max(a.shape[1], b.shape[1]), Max(a.shape[2], b.shape[2]),
           LAMBDA i, j : At2(a, IF a.shape[1] = 1 THEN 1 ELSE i,
                                IF a.shape[2] = 1 THEN 1 ELSE j)
                       * At2(b, IF b.shape[1] = 1 THEN 1 ELSE i,
                                IF b.shape[2] = 1 THEN 1 ELSE j))
  ELSE Mk3(Max(a.shape[1], b.shape[1]), Max(a.shape[2], b.shape[2]),
           Max(a.shape[3], b.shape[3]),
           LAMBDA i, j, k : At3(a, IF a.shape[1] = 1 THEN 1 ELSE i,
                                   IF a.shape[2] = 1 THEN 1 ELSE j,
                                   IF a.shape[3] = 1 THEN 1 ELSE k)
                          * At3(b, IF b.shape[1] = 1 THEN 1 ELSE i,
                                   IF b.shape[2] = 1 THEN 1 ELSE j,
                                   IF b.shape[3] = 1 THEN 1 ELSE k))

\* c * t for a python number c, and a + b for tensors of one shape.
scale(c, t) == [shape |-> t.shape, data |-> <<>> \o [p \in DOMAIN t.data |-> c * t.data[p]]]
add(a, b) ==
  [shape |-> a.shape, data |-> <<>> \o [p \in DOMAIN a.data |-> a.data[p] + b.data[p]]]

\* t.sum(dim=1) of a 2-D or of a 3-D tensor.
sum_dim1(t) ==
  IF Len(t.shape) = 2
  THEN Mk1(t.shape[1], LAMBDA i : SumTo(t.shape[2], LAMBDA m : At2(t, i, m)))
  ELSE Mk2(t.shape[1], t.shape[3],
           LAMBDA i, k : SumTo(t.shape[2], LAMBDA m : At3(t, i, m, k)))

\* torch.nn.Embedding lookup: the rows of a (n, dim) table at the indices idx.
embedding(table, idx) ==
  Mk2(Len(idx), table.shape[2], LAMBDA i, d : At2(table, idx[i] + 1, d))

\* torch.arange(0, n)
arange(lo, hi) == [p \in 1 .. (hi - lo) |-> lo + p - 1]

\* a finite integer tensor as a float tensor, and -t of a float tensor
as_float(t) == [shape |-> t.shape, data |-> <<>> \o [p \in DOMAIN t.data |-> Fin(t.data[p])]]
neg(t) == [shape |-> t.shape, data |-> <<>> \o [p \in DOMAIN t.data |-> FNeg(t.data[p])]]

(***************************************************************************)
(* torchkge.utils: dissimilarities between two (B, dim, n) tensors, taken  *)
(* along the embedding axis (dim=1).  l2 is the squared euclidean norm.    *)
(***************************************************************************)
l1_dissimilarity(a, b) ==
  as_float(Mk2(a.shape[1], a.shape[3],
               LAMBDA i, k : SumTo(a.shape[2],
                                   LAMBDA m : Abs(At3(a, i, m, k) - At3(b, i, m, k)))))

l2_dissimilarity(a, b) ==
  as_float(Mk2(a.shape[1], a.shape[3],
               LAMBDA i, k : SumTo(a.shape[2],
                                   LAMBDA m : (At3(a, i, m, k) - At3(b, i, m, k))
                                            * (At3(a, i, m, k) - At3(b, i, m, k)))))

(***************************************************************************)
(* torchkge.utils.get_rank: for each sample, 1 + the number of entries of  *)
(* data strictly greater than the entry at the true index.                 *)
(***************************************************************************)
get_rank(data, true) ==
  [i \in 1 .. data.shape[1] |->
    1 + Cardinality({j \in 1 .. data.shape[2] :
                       FGt(At2(data, i, j), At2(data, i, true[i] + 1))})]

(***************************************************************************)
(* torchkge.utils.get_true_targets: the known completions of               *)
(* (e_idx[i], r_idx[i]) other than the true one; None when the dictionary  *)
(* has no entry for the pair.                                              *)
(***************************************************************************)
get_true_targets(dictionary, e_idx, r_idx, true_idx, i) ==
  LET key == <<e_idx[i], r_idx[i]>> IN
  IF key \notin DOMAIN dictionary THEN None
  ELSE [py |-> "tensor", idx |-> dictionary[key] \ {true_idx[i]}]

(***************************************************************************)
(* Tensor storage.  A heap is a sequence of tensors and a tensor name is   *)
(* an index into it: clone() allocates a new tensor with the same content. *)
(***************************************************************************)
clone(heap, ref) == [heap |-> Append(heap, heap[ref]), ref |-> Len(heap) + 1]

\* heap[ref][i][true_targets] = value
index_put(heap, ref, i, targets, value) ==
  LET t == heap[ref] IN
  [heap EXCEPT ![ref] =
    Mk2(t.shape[1], t.shape[2],
        LAMBDA a, b : IF a = i /\ (b - 1) \in targets THEN value ELSE At2(t, a, b))]

\* the body of "for i in range(B): ..." of both compute_ranks, from sample i on:
\* the sentinel is written at the other true targets of each sample, and a
\* sample without targets is skipped.
RECURSIVE filter_loop(_, _, _, _, _, _, _, _, _)
filter_loop(heap, ref, i, B, dictionary, e_idx, r_idx, true_idx, sentinel) ==
  IF i > B THEN heap
  ELSE LET true_targets == get_true_targets(dictionary, e_idx, r_idx, true_idx, i)
       IN IF true_targets = None
          THEN filter_loop(heap, ref, i + 1, B, dictionary, e_idx, r_idx, true_idx,
                           sentinel)
          ELSE filter_loop(index_put(heap, ref, i, true_targets.idx, sentinel),
                           ref, i + 1, B, dictionary, e_idx, r_idx, true_idx, sentinel)

(***************************************************************************)
(* Python's range(x): x must be an int; a torch.Size (the value of         *)
(* tensor.shape) is a tuple and raises TypeError.                          *)
(***************************************************************************)
py_int(n) == [py |-> "int", val |-> n]
shape_of(idx) == [py |-> "Size", dims |-> <<Len(idx)>>]
range(x) == IF x.py = "int" THEN [status |-> "ok", stop |-> x.val] ELSE Raised("TypeError")

(***************************************************************************)
(* TranslationModel.compute_ranks                                          *)
(***************************************************************************)
\* heads * proj_candidates builds a new tensor and leaves its operand as it is
\* (as scale_candidates, with the candidates left unsigned)
scale_candidates_unsigned(heads, t) == [result |-> t, operand |-> t]

scale_candidates(heads, t) == [result |-> scale(heads, t), operand |-> t]

\* the float written over the other true targets
inf_sentinel_low == FNeg(PosInf)

inf_sentinel == PosInf

\* what get_rank is given: the opposite of the dissimilarities
rank_input(dissimilarities) == neg(dissimilarities)

TranslationModel_compute_ranks(slf, proj_e_emb, proj_candidates, r_emb, e_idx, r_idx, true_idx, dictionary, heads) ==
  LET current_batch_size == proj_e_emb.shape[1]
      embedding_dimension == proj_e_emb.shape[2]
      tmp_sum == expand(view(add(scale(heads, proj_e_emb), r_emb),
                             <<current_batch_size, embedding_dimension, 1>>),
                        <<current_batch_size, embedding_dimension, slf.n_ent>>)
      cand == scale_candidates(heads, proj_candidates)
      dissimilarities ==
        IF slf.dissimilarity = "L1" THEN l1_dissimilarity(tmp_sum, cand.result)
        ELSE l2_dissimilarity(tmp_sum, cand.result)
      filt == clone(<<dissimilarities>>, 1)
      heap == filter_loop(filt.heap, filt.ref, 1, current_batch_size, dictionary,
                          e_idx, r_idx, true_idx, inf_sentinel)
  IN IF slf.dissimilarity = "None"
     THEN Raised("TypeError")
     ELSE [status |-> "ok",
           rank_true_entities |-> get_rank(rank_input(heap[1]), true_idx),
           filtered_rank_true_entities |->
             get_rank(rank_input(heap[filt.ref]), true_idx),
           scores |-> neg(dissimilarities),
           raw_scores |-> neg(heap[1]),
           filt_scores |-> neg(heap[filt.ref]),
           candidates |-> cand.operand]

\* (as recover_candidates, with the table viewed as (1, dim, n_ent) untransposed)
TranslationModel_recover_candidates_view(slf, h_idx, b_size) ==
  LET all_idx == arange(0, slf.n_ent)
      candidates == embedding(slf.entity_embeddings, all_idx)
  IN expand(view(candidates, <<1, slf.ent_emb_dim, slf.n_ent>>),
            <<b_size, slf.ent_emb_dim, slf.n_ent>>)

\* TranslationModel.recover_candidates: the entity table, transposed and
\* repeated b_size times
TranslationModel_recover_candidates(slf, h_idx, b_size) ==
  LET all_idx == arange(0, slf.n_ent)
      candidates == transpose(embedding(slf.entity_embeddings, all_idx), 0, 1)
  IN expand(view(candidates, <<1, slf.ent_emb_dim, slf.n_ent>>),
            <<b_size, slf.ent_emb_dim, slf.n_ent>>)

(***************************************************************************)
(* BilinearModel.compute_product, get_head_tail_candidates, compute_ranks  *)
(***************************************************************************)
\* (as compute_product, with t.view(b_size, emb_dim, -1) for t.transpose(1, 2))
compute_product_view(h, t, r, emb_dim) ==
  LET b_size == h.shape[1] IN
  IF Len(h.shape) = 2 /\ Len(t.shape) = 2
  THEN sum_dim1(mul(view(matmul(view(h, <<b_size, 1, emb_dim>>), r),
                         <<b_size, emb_dim>>), t))
  ELSE IF Len(h.shape) = 2 /\ Len(t.shape) = 3
  THEN LET h1 == view(h, <<b_size, 1, emb_dim>>)
       IN sum_dim1(mul(view(matmul(h1, r), <<b_size, emb_dim, 1>>),
                       view(t, <<b_size, emb_dim, -1>>)))
  ELSE LET t1 == view(t, <<b_size, emb_dim, 1>>)
       IN view(matmul(matmul(h, r), t1), <<b_size, -1>>)

compute_product(h, t, r, emb_dim) ==
  LET b_size == h.shape[1] IN
  IF Len(h.shape) = 2 /\ Len(t.shape) = 2
  THEN sum_dim1(mul(view(matmul(view(h, <<b_size, 1, emb_dim>>), r),
                         <<b_size, emb_dim>>), t))
  ELSE IF Len(h.shape) = 2 /\ Len(t.shape) = 3
  THEN LET h1 == view(h, <<b_size, 1, emb_dim>>)
       IN sum_dim1(mul(view(matmul(h1, r), <<b_size, emb_dim, 1>>), transpose(t, 1, 2)))
  ELSE LET t1 == view(t, <<b_size, emb_dim, 1>>)
       IN view(matmul(matmul(h, r), t1), <<b_size, -1>>)

BilinearModel_get_head_tail_candidates(slf, h_idx, t_idx) ==
  LET b_size == Len(h_idx)
      candidates == expand(view(slf.ent_emb, <<1, slf.n_ent, slf.emb_dim>>),
                           <<b_size, slf.n_ent, slf.emb_dim>>)
  IN [h_emb |-> embedding(slf.ent_emb, h_idx),
      t_emb |-> embedding(slf.ent_emb, t_idx),
      candidates |-> candidates]

BilinearModel_compute_ranks(slf, e_emb, candidates, r, e_idx, r_idx, true_idx, dictionary, heads) ==
  LET current_batch_size == shape_of(r_idx)
      scores == as_float(IF heads = 1
                         THEN compute_product(e_emb, candidates, r, slf.emb_dim)
                         ELSE compute_product(candidates, e_emb, r, slf.emb_dim))
      filt == clone(<<scores>>, 1)
      rng == range(current_batch_size)
      heap == filter_loop(filt.heap, filt.ref, 1, rng.stop, dictionary, e_idx, r_idx,
                          true_idx, Fin(-1))
  IN IF IsRaised(rng)
     THEN [status |-> rng.status,
           scores |-> scores,
           raw_scores |-> filt.heap[1],
           filt_scores |-> filt.heap[filt.ref],
           candidates |-> candidates]
     ELSE [status |-> "ok",
           rank_true_entities |-> get_rank(heap[1], true_idx),
           filtered_rank_true_entities |-> get_rank(heap[filt.ref], true_idx),
           scores |-> scores,
           raw_scores |-> heap[1],
           filt_scores |-> heap[filt.ref],
           candidates |-> candidates]

\* TranslationModel.projection_helper: the columns of the candidates at the
\* head and at the tail indices
TranslationModel_projection_helper(h_idx, t_idx, b_size, candidates, rel_emb_dim) ==
  [proj_h_emb |-> Mk2(b_size, rel_emb_dim,
                      LAMBDA i, d : At3(candidates, i, d, h_idx[i] + 1)),
   proj_t_emb |-> Mk2(b_size, rel_emb_dim,
                      LAMBDA i, d : At3(candidates, i, d, t_idx[i] + 1))]

\* The model as it is once a call has left the candidates.  The translational
\* candidates are built from self.entity_embeddings(all_idx), a lookup that
\* copies: nothing done to them reaches the table.  The bilinear candidates
\* are a view of ent_emb.weight.data (view and expand share its storage, and
\* the rows of the expanded tensor are one and the same memory): what they
\* hold is what the table holds.
store_back(slf, candidates) ==
  IF slf.cls = "TranslationModel"
  THEN slf
  ELSE [slf EXCEPT !.ent_emb =
          Mk2(slf.n_ent, slf.emb_dim, LAMBDA j, d : At3(candidates, 1, j, d))]

(***************************************************************************)
(* Inputs: embedding tables, batches and true-completion dictionaries.     *)
(***************************************************************************)
Tables(rows, cols) ==
  {[shape |-> <<rows, cols>>, data |-> d] : d \in [1 .. (rows * cols) -> Vals]}

RelMatrices(n, d) ==
  {[shape |-> <<n, d, d>>, data |-> m] : m \in [1 .. (n * d * d) -> Vals]}

\* the rows of a (n_rel, d, d) tensor of relation matrices at the indices idx
matrix_lookup(rel, idx) ==
  Mk3(Len(idx), rel.shape[2], rel.shape[3], LAMBDA i, a, b : At3(rel, idx[i] + 1, a, b))

BatchSizes == 1 .. MaxBatch

Indices(B, S) == [1 .. B -> S]

\* every dictionary over keys of the batch whose entry for a sample's pair,
\* when there is one, holds the sample's true completion
Dictionaries(e_idx, r_idx, true_idx) ==
  LET keys == {<<e_idx[i], r_idx[i]>> : i \in DOMAIN e_idx}
      needed(k) == {true_idx[i] : i \in {i \in DOMAIN e_idx : <<e_idx[i], r_idx[i]>> = k}}
  IN UNION {{d \in [K -> SUBSET Entities] : \A k \in K : needed(k) \subseteq d[k]} :
            K \in SUBSET keys}

NoFrame == [op |-> "none"]
NoRet == [status |-> "none"]

(***************************************************************************)
(* SpecRanks: compute_ranks called on a model of either family with the    *)
(* embeddings of a batch, as evaluate_candidates passes them.              *)
(***************************************************************************)
\* entity j has every coordinate (j mod 3) - 1; every entity is the origin
RampTable(rows, cols) == Mk2(rows, cols, LAMBDA j, d : ((j - 1) % 3) - 1)
FlatTable(rows, cols) == Mk2(rows, cols, LAMBDA j, d : 0)

\* single-sample batches run over every table, longer ones over two tables
EntityTables(B) ==
  IF B = 1 THEN Tables(NEnt, Dim) ELSE {RampTable(NEnt, Dim), FlatTable(NEnt, Dim)}

TranslationModels(B) ==
  {[cls |-> "TranslationModel", n_ent |-> NEnt, n_rel |-> NRel, ent_emb_dim |-> Dim,
    dissimilarity |-> k, entity_embeddings |-> t] :
     k \in {"L1", "L2"}, t \in EntityTables(B)}

BilinearModels(B) ==
  {[cls |-> "BilinearModel", n_ent |-> NEnt, n_rel |-> NRel, emb_dim |-> Dim,
    ent_emb |-> t] : t \in EntityTables(B)}

RelTables(slf) ==
  IF slf.cls = "TranslationModel" THEN Tables(NRel, Dim) ELSE RelMatrices(NRel, Dim)

InitRanks ==
  /\ \E B \in BatchSizes :
       /\ self \in TranslationModels(B) \cup BilinearModels(B)
       /\ \E e \in Indices(B, Entities), r \in Indices(B, Relations),
             t \in Indices(B, Entities) :
            \E d \in Dictionaries(e, r, t), hd \in {1, -1}, rl \in RelTables(self) :
              args = [op |-> "compute_ranks", e_idx |-> e, r_idx |-> r, true_idx |-> t,
                      dictionary |-> d, heads |-> hd, rel |-> rl]
  /\ pc = "call"
  /\ frame = NoFrame
  /\ ret = NoRet

\* self.compute_ranks(...) on the embeddings of the batch
CallComputeRanks ==
  /\ pc = "call"
  /\ args.op = "compute_ranks"
  /\ ret' = IF self.cls = "TranslationModel"
            THEN TranslationModel_compute_ranks(
                   self, embedding(self.entity_embeddings, args.e_idx),
                   TranslationModel_recover_candidates(self, args.e_idx, Len(args.e_idx)),
                   embedding(args.rel, args.r_idx),
                   args.e_idx, args.r_idx, args.true_idx, args.dictionary, args.heads)
            ELSE LET c == BilinearModel_get_head_tail_candidates(self, args.e_idx,
                                                                 args.e_idx)
                 IN BilinearModel_compute_ranks(
                      self, c.h_emb, c.candidates, matrix_lookup(args.rel, args.r_idx),
                      args.e_idx, args.r_idx, args.true_idx, args.dictionary, args.heads)
  /\ self' = store_back(self, ret'.candidates)
  /\ pc' = "done"
  /\ UNCHANGED <<args, frame>>

NextRanks == CallComputeRanks

SpecRanks == InitRanks /\ [][NextRanks]_vars

(***************************************************************************)
(* Properties of compute_ranks.                                            *)
(***************************************************************************)
Samples == 1 .. Len(args.e_idx)
RanksDone == pc = "done" /\ args.op = "compute_ranks"
KeyOf(i) == <<args.e_idx[i], args.r_idx[i]>>
HasEntry(i) == KeyOf(i) \in DOMAIN args.dictionary
OtherTargets(i) == args.dictionary[KeyOf(i)] \ {args.true_idx[i]}
\* the number of candidates strictly more plausible than the true one
Better(scores, i) ==
  Cardinality({j \in 1 .. scores.shape[2] :
                 FGt(At2(scores, i, j), At2(scores, i, args.true_idx[i] + 1))})
RanksWithin(r) ==
  /\ r.status = "ok"
  /\ DOMAIN r.rank_true_entities = Samples
  /\ DOMAIN r.filtered_rank_true_entities = Samples
  /\ \A i \in Samples :
       /\ 1 <= r.filtered_rank_true_entities[i]
       /\ r.filtered_rank_true_entities[i] <= r.rank_true_entities[i]
       /\ r.rank_true_entities[i] <= self.n_ent

\* C1: every call of TranslationModel.compute_ranks returns, for every sample
\* of the batch, ranks with 1 <= filtered rank <= raw rank <= n_entities.
C1_TranslationRanksWithin ==
  (RanksDone /\ self.cls = "TranslationModel") => RanksWithin(ret)

\* a translational batch of two samples where filtering improves a worst rank
C1_Witness ==
  /\ RanksDone /\ self.cls = "TranslationModel" /\ ret.status = "ok"
  /\ Len(args.e_idx) = 2
  /\ \E i \in Samples :
       /\ ret.rank_true_entities[i] = self.n_ent
       /\ ret.filtered_rank_true_entities[i] < ret.rank_true_entities[i]
  /\ \E i \in Samples : ret.rank_true_entities[i] = 1

\* C2: every call of BilinearModel.compute_ranks returns one raw and one
\* filtered rank per sample with 1 <= filtered rank <= raw rank <= n_entities.
C2_BilinearRanksWithin ==
  (RanksDone /\ self.cls = "BilinearModel") => RanksWithin(ret)

\* C3: in both families compute_ranks returns, for every sample, the raw rank
\* 1 + the number of candidates whose score is strictly higher than the true
\* candidate's.
C3_RawRankCountsStrictlyBetter ==
  RanksDone =>
    /\ ret.status = "ok"
    /\ \A i \in Samples : ret.rank_true_entities[i] = 1 + Better(ret.scores, i)

\* the least plausible score of a family: -Inf for a dissimilarity of +Inf,
\* -1 for a product score
Sentinel == IF self.cls = "TranslationModel" THEN FNeg(PosInf) ELSE Fin(-1)

\* C4: for every sample with a dictionary entry, the filtered scores hold the
\* sentinel at the entry's indices other than the true one and the raw score
\* everywhere else, and the raw scores are the ones computed before filtering.
C4_FilteringFrame ==
  RanksDone =>
    /\ ret.raw_scores = ret.scores
    /\ \A i \in Samples :
         HasEntry(i) =>
           \A j \in Entities :
             At2(ret.filt_scores, i, j + 1) =
               IF j \in OtherTargets(i) THEN Sentinel ELSE At2(ret.scores, i, j + 1)

\* C5: when a sample has no dictionary entry, compute_ranks still returns,
\* with that sample's filtered rank equal to its raw rank and every other
\* sample's filtered rank computed from its own entry.
C5_MissingEntrySkipped ==
  (RanksDone /\ \E i \in Samples : ~HasEntry(i)) =>
    /\ ret.status = "ok"
    /\ \A i \in Samples :
         ~HasEntry(i) => ret.filtered_rank_true_entities[i] = ret.rank_true_entities[i]
    /\ \A i \in Samples :
         HasEntry(i) =>
           ret.filtered_rank_true_entities[i] =
             1 + Cardinality({j \in Entities \ OtherTargets(i) :
                                FGt(At2(ret.scores, i, j + 1),
                                    At2(ret.scores, i, args.true_idx[i] + 1))})

(***************************************************************************)
(* SpecProduct: the static method compute_product called in its three      *)
(* shape regimes: vector-vector ("vv"), vector-candidates ("vc", tail       *)
(* completion) and candidates-vector ("cv", head completion).               *)
(***************************************************************************)
NoSelf == [cls |-> "none"]

BinaryTensors(shape) ==
  {[shape |-> shape, data |-> d] : d \in [1 .. Numel(shape) -> {0, 1}]}

\* entry p is ((a * p + k) mod 3) - 1
PatternTensors(shape) ==
  {[shape |-> shape, data |-> [p \in 1 .. Numel(shape) |-> ((a * p + k) % 3) - 1]] :
     a \in {1, 2}, k \in {0, 1, 2}}

\* one relation matrix with a single entry 1, or with every entry 1
UnitMatrices(d) ==
  {[shape |-> <<1, d, d>>, data |-> [p \in 1 .. (d * d) |-> IF p = q THEN 1 ELSE 0]] :
     q \in 1 .. (d * d)}
  \cup {[shape |-> <<1, d, d>>, data |-> [p \in 1 .. (d * d) |-> 1]]}

\* single-sample batches run over every 0/1 tensor, longer ones over patterns
ProductTensors(shape) ==
  IF shape[1] = 1 THEN BinaryTensors(shape) ELSE PatternTensors(shape)

ProductRelations(B, d) ==
  IF B = 1 THEN UnitMatrices(d) ELSE PatternTensors(<<B, d, d>>)

Regimes == {"vv", "vc", "cv"}
HShape(regime, B, n, d) == IF regime = "cv" THEN <<B, n, d>> ELSE <<B, d>>
TShape(regime, B, n, d) == IF regime = "vc" THEN <<B, n, d>> ELSE <<B, d>>

InitProduct ==
  /\ self = NoSelf
  /\ \E B \in BatchSizes, n \in 1 .. MaxCand, regime \in Regimes :
       /\ regime = "vv" => n = 1
       /\ \E h \in ProductTensors(HShape(regime, B, n, EmbDim)),
             t \in ProductTensors(TShape(regime, B, n, EmbDim)),
             r \in ProductRelations(B, EmbDim) :
            args = [op |-> "compute_product", regime |-> regime, h |-> h, t |-> t,
                    r |-> r, emb_dim |-> EmbDim]
  /\ pc = "call"
  /\ frame = NoFrame
  /\ ret = NoRet

CallComputeProduct ==
  /\ pc = "call"
  /\ args.op = "compute_product"
  /\ ret' = [status |-> "ok",
             product |-> compute_product(args.h, args.t, args.r, args.emb_dim)]
  /\ pc' = "done"
  /\ UNCHANGED <<self, args, frame>>

NextProduct == CallComputeProduct

SpecProduct == InitProduct /\ [][NextProduct]_vars

ProductDone == pc = "done" /\ args.op = "compute_product"
\* entry a of the head vector and entry b of the tail vector of sample i,
\* candidate j
HeadAt(i, j, a) ==
  IF Len(args.h.shape) = 2 THEN At2(args.h, i, a) ELSE At3(args.h, i, j, a)
TailAt(i, j, b) ==
  IF Len(args.t.shape) = 2 THEN At2(args.t, i, b) ELSE At3(args.t, i, j, b)
\* the explicit h^T R_i t
Trilinear(i, j) ==
  SumTo(args.emb_dim,
        LAMBDA a : SumTo(args.emb_dim,
                         LAMBDA b : HeadAt(i, j, a) * At3(args.r, i, a, b)
                                                    * TailAt(i, j, b)))
NCand == IF args.regime = "vc" THEN args.t.shape[2]
         ELSE IF args.regime = "cv" THEN args.h.shape[2] ELSE 1
\* the candidate axis of size 1 dropped
Squeezed(t) == IF Len(t.shape) = 3 THEN view(t, <<t.shape[1], t.shape[3]>>) ELSE t

\* C7: compute_product returns h_i^T R_i t_i for two (B, dim) tensors, the
\* B x n values h_i^T R_i t_{i,j} for candidates on the tail side and
\* h_{i,j}^T R_i t_i for candidates on the head side; with n = 1 a candidate
\* regime gives the values of the vector-vector regime.
C7_ProductIsTrilinear ==
  ProductDone =>
    LET B == args.h.shape[1] IN
    /\ args.regime = "vv" =>
         /\ ret.product.shape = <<B>>
         /\ \A i \in 1 .. B : At1(ret.product, i) = Trilinear(i, 1)
    /\ args.regime # "vv" =>
         /\ ret.product.shape = <<B, NCand>>
         /\ \A i \in 1 .. B, j \in 1 .. NCand : At2(ret.product, i, j) = Trilinear(i, j)
    /\ (args.regime # "vv" /\ NCand = 1) =>
         ret.product.data =
           compute_product(Squeezed(args.h), Squeezed(args.t), args.r, args.emb_dim).data

\* a batch of two samples with two tail candidates each and products that
\* differ between candidates and between samples
C7_Witness ==
  /\ ProductDone /\ args.regime = "vc"
  /\ ret.product.shape = <<2, 2>>
  /\ At2(ret.product, 1, 1) # At2(ret.product, 1, 2)
  /\ At2(ret.product, 1, 1) # At2(ret.product, 2, 1)
  /\ At2(ret.product, 2, 2) # 0

(***************************************************************************)
(* The class hierarchy: constructors and method resolution.                *)
(***************************************************************************)
Classes == {"Model", "TranslationModel", "BilinearModel"}

\* Model.__init__(self, n_entities, n_relations) called with the positional
\* arguments a
Model_init(cls, a) ==
  IF Len(a) # 2 THEN Raised("TypeError")
  ELSE [status |-> "ok", obj |-> [cls |-> cls, n_ent |-> a[1], n_rel |-> a[2]]]

\* torchkge.utils.init_embedding: a (n, dim) table with the drawn weights
init_embedding(n, dim, weights) == Mk2(n, dim, LAMBDA j, d : weights)

DissimilarityTypes == {"L1", "L2", "None"}

TranslationModel_init(cls, ent_emb_dim, n_entities, n_relations, dissimilarity_type, weights) ==
  LET base == Model_init(cls, <<ent_emb_dim, n_entities, n_relations>>) IN
  IF IsRaised(base) THEN base
  ELSE IF "ent_emb_dim" \notin DOMAIN base.obj THEN Raised("AttributeError")
  ELSE IF dissimilarity_type \notin DissimilarityTypes THEN Raised("AssertionError")
  ELSE [status |-> "ok",
        obj |-> base.obj @@
                [entity_embeddings |->
                   init_embedding(base.obj.n_ent, base.obj.ent_emb_dim, weights),
                 dissimilarity |-> dissimilarity_type]]

BilinearModel_init(cls, emb_dim, n_entities, n_relations) ==
  LET base == Model_init(cls, <<n_entities, n_relations>>) IN
  IF IsRaised(base) THEN base
  ELSE [status |-> "ok", obj |-> base.obj @@ [emb_dim |-> emb_dim]]

\* the types of the objects a method is called on: the three classes, a
\* subclass of Model that defines scoring_function, and object
ObjectTypes == Classes \cup {"ScoredModel", "object"}

\* the methods each class body defines
Defined(cls) ==
  IF cls = "object" THEN {}
  ELSE IF cls = "ScoredModel" THEN {"scoring_function"}
  ELSE IF cls = "Model"
  THEN {"forward", "scoring_function", "normalize_parameters", "evaluation_helper",
        "compute_ranks", "evaluate_candidates"}
  ELSE IF cls = "TranslationModel"
  THEN {"scoring_function", "normalize_parameters", "evaluation_helper",
        "recover_project_normalize", "compute_ranks", "recover_candidates",
        "projection_helper"}
  ELSE {"scoring_function", "normalize_parameters", "evaluation_helper",
        "compute_product", "get_head_tail_candidates", "compute_ranks"}

\* the class whose body a call of method m on an object of class cls runs
resolve(cls, m) ==
  IF m \in Defined(cls) THEN cls
  ELSE IF cls # "object" /\ m \in Defined("Model") THEN "Model" ELSE "none"

\* the (class, method) bodies that are "raise NotImplementedError"
NotImplementedBodies ==
  ({"Model"} \X {"scoring_function", "normalize_parameters", "evaluation_helper",
                 "compute_ranks"})
  \cup ({"TranslationModel"} \X {"scoring_function", "normalize_parameters",
                                 "evaluation_helper", "recover_project_normalize"})
  \cup ({"BilinearModel"} \X {"scoring_function", "normalize_parameters",
                              "evaluation_helper"})

\* (as method_raises, with TranslationModel.normalize_parameters a no-op)
method_raises_but_normalize(owner, m) ==
  /\ <<owner, m>> \in NotImplementedBodies
  /\ <<owner, m>> # <<"TranslationModel", "normalize_parameters">>

method_raises(owner, m) == <<owner, m>> \in NotImplementedBodies

\* cls.m(obj, ...) for an object of type typ (obj.m(...) is type(obj).m(obj, ...)),
\* for the methods that reach nothing but the interface: the body of m is
\* looked up from cls; forward runs self.scoring_function twice and
\* evaluate_candidates starts with self.evaluation_helper, both looked up
\* from the type of the object
InterfaceMethods ==
  {"forward", "scoring_function", "normalize_parameters", "evaluation_helper",
   "recover_project_normalize", "evaluate_candidates"}

call_method(cls, m, typ) ==
  LET owner == resolve(cls, m)
      inner == owner = "Model" /\ m \in {"forward", "evaluate_candidates"}
      first == IF m = "forward" THEN "scoring_function" ELSE "evaluation_helper"
      body == resolve(typ, first)
  IN IF owner = "none" THEN Raised("AttributeError")
     ELSE IF ~inner
     THEN IF method_raises(owner, m) THEN Raised("NotImplementedError")
          ELSE [status |-> "ok", value |-> None]
     ELSE IF body = "none" THEN Raised("AttributeError")
     ELSE IF method_raises(body, first) THEN Raised("NotImplementedError")
     ELSE [status |-> "ok", value |-> <<"score", "score">>]

(***************************************************************************)
(* SpecInterface: a model of one of the three classes is constructed, and  *)
(* interface methods are called on the instance or on a class.             *)
(***************************************************************************)
Kinds == DissimilarityTypes \cup {"L3", "cosine"}

Batches ==
  UNION {{[h_idx |-> h, t_idx |-> t, r_idx |-> r] :
            h \in Indices(B, Entities), t \in Indices(B, Entities),
            r \in Indices(B, Relations)} : B \in BatchSizes}

InitInterface ==
  /\ self = NoSelf
  /\ args = [op |-> "none"]
  /\ pc = "start"
  /\ frame = NoFrame
  /\ ret = NoRet

construct(cls, dim, ne, nr, kind, weights) ==
  IF cls = "Model" THEN Model_init(cls, <<ne, nr>>)
  ELSE IF cls = "TranslationModel"
  THEN TranslationModel_init(cls, dim, ne, nr, kind, weights)
  ELSE BilinearModel_init(cls, dim, ne, nr)

Construct ==
  /\ pc = "start"
  /\ \E cls \in Classes, dim \in 1 .. Dim, ne \in 1 .. NEnt, nr \in 1 .. NRel,
        kind \in Kinds, weights \in Vals :
       /\ cls # "TranslationModel" => (kind = "None" /\ weights = 0)
       /\ cls = "Model" => dim = 1
       /\ args' = [op |-> "__init__", cls |-> cls, dim |-> dim, n_entities |-> ne,
                   n_relations |-> nr, kind |-> kind, weights |-> weights]
       /\ ret' = construct(cls, dim, ne, nr, kind, weights)
       /\ self' = IF IsRaised(ret') THEN NoSelf ELSE ret'.obj
       /\ pc' = IF IsRaised(ret') THEN "raised" ELSE "constructed"
  /\ UNCHANGED frame

\* instance.m(...)
CallMethod ==
  /\ pc = "constructed"
  /\ \E m \in InterfaceMethods \cup {"compute_ranks"}, b \in Batches :
       /\ m = "compute_ranks" => self.cls = "Model"
       /\ args' = [op |-> m, cls |-> self.cls, obj |-> self.cls, batch |-> b]
       /\ ret' = call_method(self.cls, m, self.cls)
  /\ pc' = "returned"
  /\ UNCHANGED <<self, frame>>

\* cls.m(obj, ...): the method of a class, on an object of any type
CallUnbound ==
  /\ pc = "start"
  /\ \E cls \in Classes, typ \in ObjectTypes,
        m \in InterfaceMethods \cup {"compute_ranks"}, b \in Batches :
       /\ m = "compute_ranks" => cls = "Model"
       /\ args' = [op |-> m, cls |-> cls, obj |-> typ, batch |-> b]
       /\ ret' = call_method(cls, m, typ)
  /\ pc' = "returned"
  /\ UNCHANGED <<self, frame>>

NextInterface == Construct \/ CallMethod \/ CallUnbound

SpecInterface == InitInterface /\ [][NextInterface]_vars

Constructed == pc \in {"constructed", "raised"} /\ args.op = "__init__"

\* C8: constructing a TranslationModel succeeds exactly when the kind is L1,
\* L2 or None, and then yields n_ent, n_rel, an entity table of n_entities
\* rows of length ent_emb_dim and the matching dissimilarity.
C8_ConstructionByKind ==
  (Constructed /\ args.cls = "TranslationModel") =>
    /\ (args.kind \in DissimilarityTypes) <=> (ret.status = "ok")
    /\ ret.status = "ok" =>
         /\ self.n_ent = args.n_entities
         /\ self.n_rel = args.n_relations
         /\ self.entity_embeddings.shape = <<args.n_entities, args.dim>>
         /\ self.dissimilarity = args.kind
    /\ ret.status # "ok" => self = NoSelf

\* the abstract capabilities of the three classes
AbstractCalls ==
  ({"Model"} \X {"scoring_function", "normalize_parameters", "evaluation_helper",
                 "compute_ranks"})
  \cup ({"TranslationModel"} \X {"scoring_function", "normalize_parameters",
                                 "evaluation_helper", "recover_project_normalize"})
  \cup ({"BilinearModel"} \X {"scoring_function", "normalize_parameters",
                              "evaluation_helper"})

\* C10: a call of an abstract capability on Model, TranslationModel or
\* BilinearModel ends in NotImplementedError and returns nothing.
C10_AbstractCallsRaise ==
  (pc = "returned" /\ <<args.cls, args.op>> \in AbstractCalls) =>
    ret = Raised("NotImplementedError")

\* normalize_parameters called on the translational class, and
\* evaluation_helper called on a constructed BilinearModel
C10_Witness ==
  /\ pc = "returned"
  /\ ret = Raised("NotImplementedError")
  /\ \/ args.cls = "TranslationModel" /\ args.op = "normalize_parameters"
     \/ self.cls = "BilinearModel" /\ args.op = "evaluation_helper"

(***************************************************************************)
(* SpecEval: evaluate_candidates, step by step, on a concrete model of     *)
(* either family, twice in a row.                                          *)
(***************************************************************************)
\* evaluation_helper of a concrete model: the candidates of its family, the
\* embeddings of the batch's heads and tails under the identity projection,
\* and the relation embeddings of the batch
evaluation_helper(slf, h_idx, t_idx, r_idx) ==
  IF slf.cls = "TranslationModel"
  THEN LET b_size == Len(h_idx)
           candidates == TranslationModel_recover_candidates(slf, h_idx, b_size)
           p == TranslationModel_projection_helper(h_idx, t_idx, b_size, candidates,
                                                   slf.ent_emb_dim)
       IN [proj_h_emb |-> p.proj_h_emb, proj_t_emb |-> p.proj_t_emb,
           candidates |-> candidates,
           r_emb |-> embedding(slf.relation_embeddings, r_idx)]
  ELSE LET c == BilinearModel_get_head_tail_candidates(slf, h_idx, t_idx)
       IN [proj_h_emb |-> c.h_emb, proj_t_emb |-> c.t_emb,
           candidates |-> c.candidates,
           r_emb |-> matrix_lookup(slf.rel_mat, r_idx)]

\* self.compute_ranks(...): the method of the receiver's family
compute_ranks(slf, in) ==
  IF slf.cls = "TranslationModel"
  THEN TranslationModel_compute_ranks(slf, in.e_emb, in.candidates, in.r_emb, in.e_idx,
                                      in.r_idx, in.true_idx, in.dictionary, in.heads)
  ELSE BilinearModel_compute_ranks(slf, in.e_emb, in.candidates, in.r_emb, in.e_idx,
                                   in.r_idx, in.true_idx, in.dictionary, in.heads)

\* the arguments of the two compute_ranks calls of evaluate_candidates
tails_call(a, l) ==
  [e_emb |-> l.proj_h_emb, candidates |-> l.candidates, r_emb |-> l.r_emb,
   e_idx |-> a.h_idx, r_idx |-> a.r_idx, true_idx |-> a.t_idx,
   dictionary |-> a.kg.dict_of_tails, heads |-> 1]

heads_call(a, l) ==
  [e_emb |-> l.proj_t_emb, candidates |-> l.candidates, r_emb |-> l.r_emb,
   e_idx |-> a.t_idx, r_idx |-> a.r_idx, true_idx |-> a.h_idx,
   dictionary |-> a.kg.dict_of_heads, heads |-> -1]

Triples == Entities \X Relations \X Entities

RECURSIVE FactSets(_)
FactSets(k) ==
  IF k = 0 THEN {{}}
  ELSE LET P == FactSets(k - 1) IN P \cup {S \cup {f} : S \in P, f \in Triples}

\* the true-completion dictionaries of a knowledge graph with the given facts
dict_of_tails(facts) ==
  [k \in {<<f[1], f[2]>> : f \in facts} |->
     {f[3] : f \in {g \in facts : g[1] = k[1] /\ g[2] = k[2]}}]

dict_of_heads(facts) ==
  [k \in {<<f[3], f[2]>> : f \in facts} |->
     {f[1] : f \in {g \in facts : g[3] = k[1] /\ g[2] = k[2]}}]

\* a knowledge graph that has an entry for a sample's pair has the sample
Covers(facts, h, r, t) ==
  \A i \in DOMAIN h :
    (\E f \in facts : (f[1] = h[i] \/ f[3] = t[i]) /\ f[2] = r[i])
      => <<h[i], r[i], t[i]>> \in facts

EvalTables == {RampTable(NEnt, Dim), FlatTable(NEnt, Dim)}

EvalModels ==
  {[cls |-> "TranslationModel", n_ent |-> NEnt, n_rel |-> NRel, ent_emb_dim |-> Dim,
    dissimilarity |-> k, entity_embeddings |-> e, relation_embeddings |-> r] :
     k \in {"L1", "L2"}, e \in EvalTables, r \in Tables(NRel, Dim)}
  \cup
  {[cls |-> "BilinearModel", n_ent |-> NEnt, n_rel |-> NRel, emb_dim |-> Dim,
    ent_emb |-> e, rel_mat |-> r] : e \in EvalTables, r \in RelMatrices(NRel, Dim)}

InitEval ==
  /\ self \in EvalModels
  /\ \E b \in Batches, facts \in FactSets(MaxFacts) :
       /\ Covers(facts, b.h_idx, b.r_idx, b.t_idx)
       /\ args = [op |-> "evaluate_candidates", h_idx |-> b.h_idx, t_idx |-> b.t_idx,
                  r_idx |-> b.r_idx,
                  kg |-> [dict_of_tails |-> dict_of_tails(facts),
                          dict_of_heads |-> dict_of_heads(facts)]]
  /\ pc = "helper"
  /\ frame = [op |-> "evaluate_candidates", round |-> 1, first |-> NoRet, calls |-> <<>>]
  /\ ret = NoRet

\* proj_h_emb, proj_t_emb, candidates, r_emb = self.evaluation_helper(...)
EvalHelper ==
  /\ pc = "helper"
  /\ frame' = [frame EXCEPT !.calls =
                 Append(@, [fn |-> "evaluation_helper",
                            in |-> <<args.h_idx, args.t_idx, args.r_idx>>,
                            out |-> evaluation_helper(self, args.h_idx, args.t_idx,
                                                      args.r_idx)])]
  /\ self' = store_back(self, evaluation_helper(self, args.h_idx, args.t_idx,
                                               args.r_idx).candidates)
  /\ pc' = "tails"
  /\ UNCHANGED <<args, ret>>

\* rank_true_tails, filt_rank_true_tails = self.compute_ranks(..., heads=1)
EvalTails ==
  /\ pc = "tails"
  /\ LET in == tails_call(args, frame.calls[1].out)
         out == compute_ranks(self, in)
     IN /\ frame' = [frame EXCEPT !.calls =
                       Append(@, [fn |-> "compute_ranks", in |-> in, out |-> out])]
        /\ self' = store_back(self, out.candidates)
        /\ pc' = IF IsRaised(out) THEN "done" ELSE "heads"
        /\ ret' = IF IsRaised(out) THEN Raised(out.status) ELSE ret
  /\ UNCHANGED args

\* rank_true_heads, filt_rank_true_heads = self.compute_ranks(..., heads=-1)
EvalHeads ==
  /\ pc = "heads"
  /\ LET l == frame.calls[1].out
         in == heads_call(args, [l EXCEPT !.candidates = frame.calls[2].out.candidates])
         out == compute_ranks(self, in)
     IN /\ frame' = [frame EXCEPT !.calls =
                       Append(@, [fn |-> "compute_ranks", in |-> in, out |-> out])]
        /\ self' = store_back(self, out.candidates)
        /\ pc' = IF IsRaised(out) THEN "done" ELSE "return"
        /\ ret' = IF IsRaised(out) THEN Raised(out.status) ELSE ret
  /\ UNCHANGED args

\* return rank_true_tails, filt_rank_true_tails, rank_true_heads, filt_rank_true_heads
EvalReturn ==
  /\ pc = "return"
  /\ ret' = [status |-> "ok",
             value |-> <<frame.calls[2].out.rank_true_entities,
                         frame.calls[2].out.filtered_rank_true_entities,
                         frame.calls[3].out.rank_true_entities,
                         frame.calls[3].out.filtered_rank_true_entities>>]
  /\ pc' = "done"
  /\ UNCHANGED <<self, args, frame>>

\* the same model evaluates the same batch a second time
EvalAgain ==
  /\ pc = "done"
  /\ frame.round = 1
  /\ frame' = [frame EXCEPT !.round = 2, !.first = ret, !.calls = <<>>]
  /\ ret' = NoRet
  /\ pc' = "helper"
  /\ UNCHANGED <<self, args>>

NextEval == EvalHelper \/ EvalTails \/ EvalHeads \/ EvalReturn \/ EvalAgain

SpecEval == InitEval /\ [][NextEval]_vars

EvalDone == pc = "done" /\ args.op = "evaluate_candidates"

\* C6: evaluate_candidates calls evaluation_helper once, then compute_ranks
\* with the head embeddings, the heads as known entities, the tails as true
\* targets, dict_of_tails and sign 1, then compute_ranks with the tail
\* embeddings, the tails as known entities, the heads as true targets,
\* dict_of_heads and sign -1, and returns raw tail ranks, filtered tail
\* ranks, raw head ranks, filtered head ranks.
C6_EvaluationProtocol ==
  EvalDone =>
    LET c == frame.calls IN
    /\ Len(c) = 3
    /\ c[1].fn = "evaluation_helper"
    /\ c[1].in = <<args.h_idx, args.t_idx, args.r_idx>>
    /\ c[2].fn = "compute_ranks" /\ c[3].fn = "compute_ranks"
    /\ c[2].in = [e_emb |-> c[1].out.proj_h_emb, candidates |-> c[1].out.candidates,
                  r_emb |-> c[1].out.r_emb, e_idx |-> args.h_idx, r_idx |-> args.r_idx,
                  true_idx |-> args.t_idx, dictionary |-> args.kg.dict_of_tails,
                  heads |-> 1]
    /\ c[3].in = [e_emb |-> c[1].out.proj_t_emb, candidates |-> c[1].out.candidates,
                  r_emb |-> c[1].out.r_emb, e_idx |-> args.t_idx, r_idx |-> args.r_idx,
                  true_idx |-> args.h_idx, dictionary |-> args.kg.dict_of_heads,
                  heads |-> -1]
    /\ ret = [status |-> "ok",
              value |-> <<c[2].out.rank_true_entities,
                          c[2].out.filtered_rank_true_entities,
                          c[3].out.rank_true_entities,
                          c[3].out.filtered_rank_true_entities>>]

\* C9: every step of evaluate_candidates leaves the model's tables and the
\* true-completion dictionaries as they were, every evaluation returns four
\* rank vectors, one rank per sample each, and a second evaluation of the
\* same batch by the same model returns the same four vectors.
C9_EvaluationIsReadOnly ==
  [][/\ self' = self
     /\ args' = args
     /\ pc' = "done" =>
          /\ ret'.status = "ok"
          /\ Len(ret'.value) = 4
          /\ \A k \in 1 .. 4 : DOMAIN ret'.value[k] = DOMAIN args.h_idx
          /\ frame'.round = 2 => ret' = frame'.first]_vars

(***************************************************************************)
(* SpecDistance: TranslationModel.compute_ranks over embeddings of         *)
(* dimension EmbDim, in both roles.                                        *)
(***************************************************************************)
\* entity j has coordinate d equal to ((j + 2d) mod 3) - 1: the rows differ,
\* and so do the coordinates of a row
SkewTable(rows, cols) == Mk2(rows, cols, LAMBDA j, d : ((j + 2 * d) % 3) - 1)

\* single-sample batches run over every table, longer ones over two tables
WideTables(B) ==
  IF B = 1 THEN Tables(NEnt, EmbDim) ELSE {SkewTable(NEnt, EmbDim), FlatTable(NEnt, EmbDim)}

InitDistance ==
  /\ \E B \in BatchSizes :
       /\ self \in {[cls |-> "TranslationModel", n_ent |-> NEnt, n_rel |-> NRel,
                     ent_emb_dim |-> EmbDim, dissimilarity |-> k,
                     entity_embeddings |-> t] : k \in {"L1", "L2"}, t \in WideTables(B)}
       /\ \E e \in Indices(B, Entities), r \in Indices(B, Relations),
             hd \in {1, -1}, rl \in Tables(NRel, EmbDim) :
            args = [op |-> "compute_ranks", e_idx |-> e, r_idx |-> r, true_idx |-> e,
                    dictionary |-> <<>>, heads |-> hd, rel |-> rl]
  /\ pc = "call"
  /\ frame = NoFrame
  /\ ret = NoRet

SpecDistance == InitDistance /\ [][NextRanks]_vars

\* row j of a table, as a vector
Row(table, j) == [d \in 1 .. table.shape[2] |-> At2(table, j + 1, d)]

VecAdd(u, v) == [d \in DOMAIN u |-> u[d] + v[d]]

\* the L1 distance and the squared L2 distance of two vectors
Distance(kind, u, v) ==
  IF kind = "L1" THEN SumSeq([d \in DOMAIN u |-> Abs(u[d] - v[d])])
  ELSE SumSeq([d \in DOMAIN u |-> (u[d] - v[d]) * (u[d] - v[d])])

\* the model score -dissimilarity(h + r, t) of the triple with candidate c in
\* the slot sample i misses
TripleScore(i, c) ==
  LET fixed == Row(self.entity_embeddings, args.e_idx[i])
      cand == Row(self.entity_embeddings, c)
      rel == Row(args.rel, args.r_idx[i])
  IN FNeg(Fin(IF args.heads = 1
               THEN Distance(self.dissimilarity, VecAdd(fixed, rel), cand)
               ELSE Distance(self.dissimilarity, VecAdd(cand, rel), fixed)))

\* C11: in TranslationModel.compute_ranks with L1 or L2, the dissimilarity of
\* candidate c for sample i is dissimilarity(h_i + r_i, c) when the fixed
\* entity is the head and dissimilarity(c + r_i, t_i) when it is the tail,
\* so c is ranked by the score of the triple with c in the missing slot.
C11_DissimilarityByRole ==
  (RanksDone /\ self.cls = "TranslationModel") =>
    /\ ret.status = "ok"
    /\ ret.scores.shape = <<Len(args.e_idx), self.n_ent>>
    /\ \A i \in Samples : \A c \in Entities :
         /\ At2(ret.scores, i, c + 1) = TripleScore(i, c)
         /\ At2(ret.raw_scores, i, c + 1) = TripleScore(i, c)

\* a tail is the fixed entity, the relation is not the null shift, and a
\* candidate's score as a head differs from its score as a tail
C11_Witness ==
  /\ RanksDone /\ self.cls = "TranslationModel" /\ ret.status = "ok"
  /\ args.heads = -1
  /\ self.ent_emb_dim = EmbDim
  /\ \E c \in Entities :
       /\ At2(ret.scores, 1, c + 1) = TripleScore(1, c)
       /\ TripleScore(1, c) #
            FNeg(Fin(Distance(self.dissimilarity,
                              VecAdd(Row(self.entity_embeddings, args.e_idx[1]),
                                     Row(args.rel, args.r_idx[1])),
                              Row(self.entity_embeddings, c))))

(***************************************************************************)
(* SpecCandidates: the candidate generators of the two families, called on *)
(* a model with embeddings of dimension EmbDim.                            *)
(***************************************************************************)
InitCandidates ==
  /\ \E B \in BatchSizes :
       /\ self \in {[cls |-> "TranslationModel", n_ent |-> NEnt, n_rel |-> NRel,
                     ent_emb_dim |-> EmbDim, dissimilarity |-> "L2",
                     entity_embeddings |-> t] : t \in WideTables(B)}
                   \cup
                   {[cls |-> "BilinearModel", n_ent |-> NEnt, n_rel |-> NRel,
                     emb_dim |-> EmbDim, ent_emb |-> t] : t \in WideTables(B)}
       /\ \E h \in Indices(B, Entities), t \in Indices(B, Entities), b \in BatchSizes :
            /\ self.cls = "BilinearModel" => b = B
            /\ args = [op |-> "candidates", h_idx |-> h, t_idx |-> t, b_size |-> b]
  /\ pc = "call"
  /\ frame = NoFrame
  /\ ret = NoRet

\* self.recover_candidates(h_idx, b_size)
CallRecoverCandidates ==
  /\ pc = "call"
  /\ args.op = "candidates"
  /\ self.cls = "TranslationModel"
  /\ ret' = [status |-> "ok",
             candidates |-> TranslationModel_recover_candidates(self, args.h_idx,
                                                                args.b_size)]
  /\ pc' = "done"
  /\ UNCHANGED <<self, args, frame>>

\* self.get_head_tail_candidates(h_idx, t_idx)
CallGetHeadTailCandidates ==
  /\ pc = "call"
  /\ args.op = "candidates"
  /\ self.cls = "BilinearModel"
  /\ LET c == BilinearModel_get_head_tail_candidates(self, args.h_idx, args.t_idx)
     IN ret' = [status |-> "ok", h_emb |-> c.h_emb, t_emb |-> c.t_emb,
                candidates |-> c.candidates]
  /\ pc' = "done"
  /\ UNCHANGED <<self, args, frame>>

NextCandidates == CallRecoverCandidates \/ CallGetHeadTailCandidates

SpecCandidates == InitCandidates /\ [][NextCandidates]_vars

CandidatesDone == pc = "done" /\ args.op = "candidates"

\* C12: recover_candidates(h_idx, B) returns a (B, ent_emb_dim, n_ent) tensor
\* with candidates[b][d][j] = entity_embedding[j][d], and
\* get_head_tail_candidates returns a (B, n_ent, emb_dim) tensor with
\* candidates[b][j][d] = entity_embedding[j][d] together with the embeddings
\* of the batch's heads and of its tails; candidate j is entity j.
C12_CandidatesReplicateTable ==
  /\ (CandidatesDone /\ self.cls = "TranslationModel") =>
       /\ ret.candidates.shape = <<args.b_size, self.ent_emb_dim, self.n_ent>>
       /\ \A b \in 1 .. args.b_size, d \in 1 .. self.ent_emb_dim, j \in Entities :
            At3(ret.candidates, b, d, j + 1) = At2(self.entity_embeddings, j + 1, d)
  /\ (CandidatesDone /\ self.cls = "BilinearModel") =>
       LET B == Len(args.h_idx) IN
       /\ ret.candidates.shape = <<B, self.n_ent, self.emb_dim>>
       /\ \A b \in 1 .. B, d \in 1 .. self.emb_dim, j \in Entities :
            At3(ret.candidates, b, j + 1, d) = At2(self.ent_emb, j + 1, d)
       /\ ret.h_emb.shape = <<B, self.emb_dim>>
       /\ ret.t_emb.shape = <<B, self.emb_dim>>
       /\ \A i \in 1 .. B, d \in 1 .. self.emb_dim :
            /\ At2(ret.h_emb, i, d) = At2(self.ent_emb, args.h_idx[i] + 1, d)
            /\ At2(ret.t_emb, i, d) = At2(self.ent_emb, args.t_idx[i] + 1, d)

\* candidates of a batch of two over a table whose rows and columns differ,
\* for a translational model
C12_Witness ==
  /\ CandidatesDone /\ self.cls = "TranslationModel"
  /\ args.b_size = 2
  /\ self.entity_embeddings = SkewTable(NEnt, EmbDim)
  /\ ret.candidates.shape = <<2, EmbDim, NEnt>>
  /\ At3(ret.candidates, 2, 1, 2) # At3(ret.candidates, 2, 2, 1)

====
